---- MODULE Spec2Model ----
(***************************************************************************)
(* cgmemtime (src/main.rs): a harness that runs one command inside a       *)
(* fresh cgroup-v2 leaf group and reports its CPU times and peak memory.   *)
(*                                                                         *)
(* The model follows main(): Args::parse, check_cgroupfs,                  *)
(* check_cgroup_dir (with reexec_with_systemd_run), setup_cgroup, execute, *)
(* Drop for Args and the final println.  The environment is the cgroup     *)
(* filesystem, the launched child and its descendants, and the interactive *)
(* signals.  Strings are sequences of tokens: a controller name, a path    *)
(* component or an argument is one token.                                  *)
(***************************************************************************)
EXTENDS Integers, Sequences, FiniteSets, TLC

(* ---------------------------- bounds ---------------------------------- *)
\* longest controller list written in cgroup.controllers / subtree_control
MaxCtl == 3
\* longest /proc/self/cgroup record, in tokens
MaxRec == 2
\* cap on the number of re-launches through systemd-run the model follows
MaxRelaunch == 3
\* largest tv_sec of a rusage time
MaxSec == 1
\* largest ru_maxrss (KiB) and largest memory.peak (KiB) the kernel reports
MaxMem == 1

(* ------------------------ program constants --------------------------- *)
\* exit status of a Rust process whose main thread panicked
ExitPanic == 101
\* exit(118): systemd-run could not be executed
ExitReexecFailed == 118
\* exit(119): no user@.service cgroup and -Z given
ExitNoScope == 119
\* exit(127): the child could not replace its image
ExitNotStarted == 127
\* status of a process ended by SIGINT, as its parent's shell reports it
ExitKilled == 130
\* the process has not ended
Running == -1
\* Duration keeps whole seconds and the nanoseconds below one second
NanosPerSec == 1000000000
\* bytes per KiB: ru_maxrss * 1024
KiB == 1024

(* ------------------------------ paths --------------------------------- *)
\* Option::None for the Option<String> / Option<PathBuf> fields
None == <<>>
\* Path::join
join(dir, name) == Append(dir, name)
\* Path::parent
parent(p) == SubSeq(p, 1, Len(p) - 1)
\* the directory named by -c, and the tempdir "cgmt-XXXXXX" of this run
ExplicitDir == <<"cg">>
TempDir == <<"tmp">>
Paths == {ExplicitDir, join(ExplicitDir, "leaf"), TempDir, join(TempDir, "leaf")}

(* ------------------------- strings as tokens -------------------------- *)
\* all sequences over S of length 0..n
SeqsUpTo(S, n) == UNION {[1..k -> S] : k \in 0..n}
\* str::find: index of the first occurrence of pat in buf, 0 for None
find(buf, pat) ==
    LET hits == {i \in 1..(Len(buf) - Len(pat) + 1) :
                    SubSeq(buf, i, i + Len(pat) - 1) = pat}
    IN IF hits = {} THEN 0 ELSE CHOOSE i \in hits : \A j \in hits : i <= j
\* Option::or on find results
or(a, b) == IF a # 0 THEN a ELSE b

(* --------------------- the control-group filesystem ------------------- *)
Controllers == {"cpu", "memory", "pids"}
RECURSIVE Joined(_)
\* the kernel's rendering of a controller list: names separated by one
\* space, the line ended by a newline
Joined(names) ==
    IF names = <<>> THEN <<>>
    ELSE IF Len(names) = 1 THEN <<names[1]>>
    ELSE <<names[1], " ">> \o Joined(Tail(names))
KernelFile(names) == Joined(names) \o <<"\n">>
\* the order in which the kernel lists the controllers it knows
KernelOrder == <<"cpu", "memory", "pids">>
\* the controller lists a file can hold: the enabled ones, in kernel order
CtlLists ==
    {SelectSeq(KernelOrder, LAMBDA c : c \in S) :
        S \in {T \in SUBSET Controllers : Cardinality(T) <= MaxCtl}}
Unreadable == <<"EACCES">>
CtlFiles == {KernelFile(l) : l \in CtlLists} \cup {Unreadable}

VARIABLES
    argv,              \* std::env::args of the running invocation
    argv_orig,         \* the arguments the user gave (history)
    args,              \* struct Args
    pc,                \* position of the harness in main
    exit_code,         \* exit status of the harness, Running while it runs
    fs,                \* kind of every path: "absent", "dir" or "file"
    controllers_file,  \* <mount>/cgroup.controllers
    subtree_file,      \* <mount>/cgroup.subtree_control
    cgroup_record,     \* /proc/self/cgroup as check_cgroup_dir read it (its buf)
    child,             \* the cloned process
    child_status,      \* its exit status while it is a zombie
    descendants,       \* processes started by the child live in the leaf
    child_cg,          \* the group the child was cloned into
    sig_ignored,       \* SIGINT/SIGQUIT disposition of the harness is SIG_IGN
    relaunches,        \* how often the process re-executed through systemd-run
    usg,               \* the rusage wait4 filled in, while execute reads it
    result,            \* struct Result returned by execute, until main returns
    printed,           \* println!("{}", result) happened
    log                \* the harness's system calls that create, delete, write or start

vars == <<argv, argv_orig, args, pc, exit_code, fs, controllers_file, subtree_file,
          cgroup_record, child, child_status, descendants, child_cg, sig_ignored,
          relaunches, usg, result, printed, log>>

(* --------------------------- Args::parse ------------------------------ *)
\* struct Args before any option is seen (the #[arg(skip)] fields are None)
ArgsDefault ==
    [cg_dir |-> None, temp_cg_dir |-> None, leaf_dir |-> None,
     disable_systemd_run |-> FALSE, command |-> <<>>]
RECURSIVE parse_from(_, _)
\* clap: options up to the first word that is none, which starts the
\* external subcommand; the rest is passed through verbatim
parse_from(toks, acc) ==
    IF toks = <<>> THEN acc
    ELSE IF Head(toks) = "-Z"
         THEN parse_from(Tail(toks), [acc EXCEPT !.disable_systemd_run = TRUE])
    ELSE IF Head(toks) = "-c" /\ Len(toks) >= 2
         THEN parse_from(Tail(Tail(toks)), [acc EXCEPT !.cg_dir = <<toks[2]>>])
    ELSE [acc EXCEPT !.command = toks]
parse(av) == parse_from(Tail(av), ArgsDefault)

\* the commands of the model: one that exists and one that does not
Commands == {<<"true">>, <<"nosuchcmd">>}
\* execve finds the program
CmdExists(cmd) == cmd[1] # "nosuchcmd"
InitArgvs ==
    {<<"cgmemtime">> \o z \o c \o cmd :
        z \in {<<>>, <<"-Z">>}, c \in {<<>>, <<"-c", "cg">>}, cmd \in Commands}

\* the filesystem before the run: the -c path is a directory, a file or
\* missing, and a directory "leaf" may already be there
InitFs ==
    {[p \in Paths |->
        IF p = ExplicitDir THEN k
        ELSE IF p = join(ExplicitDir, "leaf") THEN l
        ELSE "absent"] :
     k \in {"dir", "file", "absent"}, l \in {"dir", "absent"}}

NotRead == <<"(not read)">>
RecTokens == {"/", ".service", "x"}
Records == SeqsUpTo(RecTokens, MaxRec) \cup {Unreadable}

Init ==
    /\ argv \in InitArgvs
    /\ argv_orig = argv
    /\ args = ArgsDefault
    /\ pc = "start"
    /\ exit_code = Running
    /\ fs \in {f \in InitFs :
                 /\ f[join(ExplicitDir, "leaf")] = "dir" => f[ExplicitDir] = "dir"
                 /\ parse(argv).cg_dir = None => f[ExplicitDir] = "absent"}
    /\ controllers_file \in CtlFiles
    /\ subtree_file \in CtlFiles
    /\ cgroup_record = NotRead
    /\ child = "none"
    /\ child_status = Running
    /\ descendants = FALSE
    /\ child_cg = None
    /\ sig_ignored = FALSE
    /\ relaunches = 0
    /\ usg = None
    /\ result = None
    /\ printed = FALSE
    /\ log = <<>>

\* what no step of the harness itself changes
env == <<argv_orig, controllers_file, subtree_file>>
proc == <<child, child_status, descendants, child_cg>>

\* a system call of the harness, as the log keeps it
Call(op, path, ok) == [op |-> op, path |-> path, ok |-> ok]

(* --------------------------- main: parse ------------------------------ *)
main_parse ==
    /\ pc = "start"
    /\ args' = parse(argv)
    /\ pc' = "check_cgroupfs"
    /\ UNCHANGED <<usg, argv, exit_code, fs, cgroup_record, sig_ignored, relaunches,
                   result, printed, log, env, proc>>

(* -------------------------- check_cgroupfs ---------------------------- *)
\* buf.find("memory ").or(buf.find("memory\0")) is Some
memory_found(buf) ==
    or(find(buf, <<"memory", " ">>), find(buf, <<"memory", "NUL">>)) # 0
\* one round of the loop: open, read, find
file_ok(file) == file # Unreadable /\ memory_found(file)
check_cgroupfs ==
    /\ pc = "check_cgroupfs"
    /\ pc' = IF file_ok(controllers_file) /\ file_ok(subtree_file)
             THEN "check_cgroup_dir" ELSE "panic"
    /\ UNCHANGED <<usg, argv, args, exit_code, fs, cgroup_record, sig_ignored, relaunches,
                   result, printed, log, env, proc>>

(* ------------------------- check_cgroup_dir --------------------------- *)

\* a re-launch that forgets to pass -Z
reexec_without_flag ==
    IF args.disable_systemd_run
    THEN /\ pc' = "exited"
         /\ exit_code' = ExitNoScope
         /\ UNCHANGED <<argv, args, relaunches, log>>
    ELSE \E started \in BOOLEAN :
         /\ log' = Append(log, Call("exec", <<"systemd-run">>, started))
         /\ IF started
            THEN /\ relaunches < MaxRelaunch
                 /\ argv' = argv
                 /\ args' = ArgsDefault
                 /\ relaunches' = relaunches + 1
                 /\ pc' = "start"
                 /\ UNCHANGED exit_code
            ELSE /\ pc' = "exited"
                 /\ exit_code' = ExitReexecFailed
                 /\ UNCHANGED <<argv, args, relaunches>>

\* a fallback that does not look at disable_systemd_run
reexec_ignoring_flag ==
    \E started \in BOOLEAN :
    /\ log' = Append(log, Call("exec", <<"systemd-run">>, started))
    /\ IF started
       THEN /\ relaunches < MaxRelaunch
            /\ argv' = <<Head(argv), "-Z">> \o Tail(argv)
            /\ args' = ArgsDefault
            /\ relaunches' = relaunches + 1
            /\ pc' = "start"
            /\ UNCHANGED exit_code
       ELSE /\ pc' = "exited"
            /\ exit_code' = ExitReexecFailed
            /\ UNCHANGED <<argv, args, relaunches>>

\* a fallback that carries on with provisioning when systemd-run cannot be
\* executed
reexec_returning ==
    IF args.disable_systemd_run
    THEN /\ pc' = "exited"
         /\ exit_code' = ExitNoScope
         /\ UNCHANGED <<argv, args, relaunches, log>>
    ELSE \E started \in BOOLEAN :
         /\ log' = Append(log, Call("exec", <<"systemd-run">>, started))
         /\ IF started
            THEN /\ relaunches < MaxRelaunch
                 /\ argv' = <<Head(argv), "-Z">> \o Tail(argv)
                 /\ args' = ArgsDefault
                 /\ relaunches' = relaunches + 1
                 /\ pc' = "start"
                 /\ UNCHANGED exit_code
            ELSE /\ pc' = "setup_cgroup"
                 /\ UNCHANGED <<exit_code, argv, args, relaunches>>

\* reexec_with_systemd_run: exit(119) under -Z; else exec systemd-run with
\* args[0], "-Z" and the other arguments, exit(118) when the exec returns
reexec_with_systemd_run ==
    IF args.disable_systemd_run
    THEN /\ pc' = "exited"
         /\ exit_code' = ExitNoScope
         /\ UNCHANGED <<argv, args, relaunches, log>>
    ELSE \E started \in BOOLEAN :
         /\ log' = Append(log, Call("exec", <<"systemd-run">>, started))
         /\ IF started
            THEN /\ relaunches < MaxRelaunch
                 /\ argv' = <<Head(argv), "-Z">> \o Tail(argv)
                 /\ args' = ArgsDefault
                 /\ relaunches' = relaunches + 1
                 /\ pc' = "start"
                 /\ UNCHANGED exit_code
            ELSE /\ pc' = "exited"
                 /\ exit_code' = ExitReexecFailed
                 /\ UNCHANGED <<argv, args, relaunches>>


\* an invalid -c path silently dropped in favour of the derived directory
explicit_dir_fallback ==
    /\ args.cg_dir # None
    /\ IF fs[args.cg_dir] = "dir"
       THEN pc' = "setup_cgroup" /\ UNCHANGED args
       ELSE pc' = "check_cgroup_dir" /\ args' = [args EXCEPT !.cg_dir = None]
    /\ UNCHANGED <<argv, exit_code, fs, cgroup_record, relaunches, log>>

\* Some(cg_dir): metadata(cg_dir) must succeed and be a directory
explicit_dir ==
    /\ args.cg_dir # None
    /\ pc' = IF fs[args.cg_dir] = "dir" THEN "setup_cgroup" ELSE "panic"
    /\ UNCHANGED <<argv, args, exit_code, fs, cgroup_record, relaunches, log>>

\* None: read /proc/self/cgroup, take the path up to ".service" and make a
\* tempdir in it, or fall back to systemd-run
derived_dir ==
    /\ args.cg_dir = None
    /\ \E buf \in Records :
       LET slash == find(buf, <<"/">>)
           e_pos == find(buf, <<".service">>)
       IN IF buf = Unreadable \/ slash = 0
          THEN /\ pc' = "panic"
               /\ cgroup_record' = buf
               /\ UNCHANGED <<argv, args, exit_code, fs, relaunches, log>>
          ELSE IF e_pos = 0
          THEN /\ reexec_with_systemd_run
               /\ cgroup_record' = IF pc' = "start" THEN NotRead ELSE buf
               /\ UNCHANGED fs
          ELSE IF slash > e_pos
          \* buf.get(s_pos..e_pos + len) is None, unwrap panics
          THEN /\ pc' = "panic"
               /\ cgroup_record' = buf
               /\ UNCHANGED <<argv, args, exit_code, fs, relaunches, log>>
          ELSE \E made \in BOOLEAN :
               /\ cgroup_record' = buf
               /\ log' = Append(log, Call("mkdir", TempDir, made))
               /\ IF made
                  THEN /\ fs' = [fs EXCEPT ![TempDir] = "dir"]
                       /\ args' = [args EXCEPT !.temp_cg_dir = TempDir]
                       /\ pc' = "setup_cgroup"
                  ELSE /\ pc' = "panic"
                       /\ UNCHANGED <<fs, args>>
               /\ UNCHANGED <<argv, exit_code, relaunches>>

check_cgroup_dir ==
    /\ pc = "check_cgroup_dir"
    /\ explicit_dir \/ derived_dir
    /\ UNCHANGED <<usg, sig_ignored, result, printed, env, proc>>

(* ---------------------------- setup_cgroup ---------------------------- *)
\* the directory setup_cgroup works in: temp_cg_dir, else cg_dir
target_dir(a) == IF a.temp_cg_dir # None THEN a.temp_cg_dir ELSE a.cg_dir

\* rmdir/mkdir as the cgroup filesystem decides them
populated(p) == p = child_cg /\ (child \in {"created", "running"} \/ descendants)
has_children(f, p) == \E q \in Paths : parent(q) = p /\ f[q] # "absent"
rmdir_ok(f, p) == f[p] = "dir" /\ ~has_children(f, p) /\ ~populated(p)


\* create_dir whose error is dropped instead of expect()ed
setup_cgroup_mkdir_unchecked ==
    /\ pc = "setup_cgroup"
    /\ LET cg_dir == target_dir(args)
           leaf_dir == join(cg_dir, "leaf")
       IN IF cg_dir = None \/ fs[cg_dir] # "dir"
          THEN /\ pc' = "panic"
               /\ UNCHANGED <<args, fs, log>>
          ELSE \E permitted \in BOOLEAN :
               LET made == permitted /\ fs[leaf_dir] = "absent"
               IN /\ log' = Append(log, Call("mkdir", leaf_dir, made))
                  /\ pc' = "setup_cgroup_enable"
                  /\ IF made
                     THEN /\ fs' = [fs EXCEPT ![leaf_dir] = "dir"]
                          /\ args' = [args EXCEPT !.leaf_dir = leaf_dir]
                     ELSE UNCHANGED <<args, fs>>
    /\ cgroup_record' = NotRead
    /\ UNCHANGED <<usg, argv, exit_code, sig_ignored, relaunches,
                   result, printed, env, proc>>

\* a leaf path recorded for cleanup before create_dir is known to succeed
setup_cgroup_mkdir_recording ==
    /\ pc = "setup_cgroup"
    /\ LET cg_dir == target_dir(args)
           leaf_dir == join(cg_dir, "leaf")
       IN IF cg_dir = None \/ fs[cg_dir] # "dir"
          THEN /\ pc' = "panic"
               /\ UNCHANGED <<args, fs, log>>
          ELSE \E permitted \in BOOLEAN :
               LET made == permitted /\ fs[leaf_dir] = "absent"
               IN /\ log' = Append(log, Call("mkdir", leaf_dir, made))
                  /\ args' = [args EXCEPT !.leaf_dir = leaf_dir]
                  /\ IF made
                     THEN /\ fs' = [fs EXCEPT ![leaf_dir] = "dir"]
                          /\ pc' = "setup_cgroup_enable"
                     ELSE /\ pc' = "panic"
                          /\ UNCHANGED fs
    /\ cgroup_record' = NotRead
    /\ UNCHANGED <<usg, argv, exit_code, sig_ignored, relaunches,
                   result, printed, env, proc>>

\* read_dir(cg_dir), create_dir(cg_dir/leaf), self.leaf_dir = Some(leaf_dir)
setup_cgroup_mkdir ==
    /\ pc = "setup_cgroup"
    /\ LET cg_dir == target_dir(args)
           leaf_dir == join(cg_dir, "leaf")
       IN IF cg_dir = None \/ fs[cg_dir] # "dir"
          THEN /\ pc' = "panic"
               /\ UNCHANGED <<args, fs, log>>
          ELSE \E permitted \in BOOLEAN :
               LET made == permitted /\ fs[leaf_dir] = "absent"
               IN /\ log' = Append(log, Call("mkdir", leaf_dir, made))
                  /\ IF made
                     THEN /\ fs' = [fs EXCEPT ![leaf_dir] = "dir"]
                          /\ args' = [args EXCEPT !.leaf_dir = leaf_dir]
                          /\ pc' = "setup_cgroup_enable"
                     ELSE /\ pc' = "panic"
                          /\ UNCHANGED <<args, fs>>
    /\ cgroup_record' = NotRead
    /\ UNCHANGED <<usg, argv, exit_code, sig_ignored, relaunches,
                   result, printed, env, proc>>


\* a controller-enable step whose errors are dropped instead of expect()ed
setup_cgroup_enable_unchecked ==
    /\ pc = "setup_cgroup_enable"
    /\ LET cg_dir == target_dir(args)
           sub_ctl_file == join(cg_dir, "cgroup.subtree_control")
       IN \E outcome \in {"open failed", "write failed", "written"} :
          /\ (fs[cg_dir] # "dir") => outcome = "open failed"
          /\ log' = IF outcome = "open failed"
                    THEN Append(log, Call("open", sub_ctl_file, FALSE))
                    ELSE log \o <<Call("open", sub_ctl_file, TRUE),
                                  Call("write", sub_ctl_file, outcome = "written")>>
          /\ pc' = "execute"
    /\ UNCHANGED <<usg, argv, args, exit_code, fs, cgroup_record, sig_ignored, relaunches,
                   result, printed, env, proc>>

\* open cg_dir/cgroup.subtree_control for writing, write "+memory", flush
setup_cgroup_enable ==
    /\ pc = "setup_cgroup_enable"
    /\ LET cg_dir == target_dir(args)
           sub_ctl_file == join(cg_dir, "cgroup.subtree_control")
       IN \E outcome \in {"open failed", "write failed", "written"} :
          /\ (fs[cg_dir] # "dir") => outcome = "open failed"
          /\ log' = IF outcome = "open failed"
                    THEN Append(log, Call("open", sub_ctl_file, FALSE))
                    ELSE log \o <<Call("open", sub_ctl_file, TRUE),
                                  Call("write", sub_ctl_file, outcome = "written")>>
          /\ pc' = IF outcome = "written" THEN "execute" ELSE "panic"
    /\ UNCHANGED <<usg, argv, args, exit_code, fs, cgroup_record, sig_ignored, relaunches,
                   result, printed, env, proc>>

(* ------------------------------ execute ------------------------------- *)
\* open the leaf directory and clone3 into it (CLONE_INTO_CGROUP, CLONE_VFORK)
execute_clone ==
    /\ pc = "execute"
    /\ LET leaf_dir == args.leaf_dir
       IN IF fs[leaf_dir] # "dir"
          THEN /\ pc' = "panic"
               /\ UNCHANGED <<log, child, child_cg>>
          ELSE \E cloned \in BOOLEAN :
               /\ log' = Append(log, Call("clone", leaf_dir, cloned))
               /\ IF cloned
                  THEN /\ child' = "created"
                       /\ child_cg' = leaf_dir
                       /\ pc' = "execute_parent"
                  ELSE /\ pc' = "panic"
                       /\ UNCHANGED <<child, child_cg>>
    /\ UNCHANGED <<usg, argv, args, exit_code, fs, cgroup_record, sig_ignored, relaunches,
                   result, printed, env, child_status, descendants>>

\* the child: exec the command, or report and exit(127)
child_exec ==
    /\ child = "created"
    /\ log' = Append(log, Call("execve", <<args.command[1]>>, CmdExists(args.command)))
    /\ IF CmdExists(args.command)
       THEN child' = "running" /\ UNCHANGED child_status
       ELSE child' = "exited" /\ child_status' = ExitNotStarted
    /\ UNCHANGED <<usg, argv, args, pc, exit_code, fs, cgroup_record, sig_ignored, relaunches,
                   result, printed, env, descendants, child_cg>>

\* the parent, resumed once the vfork child has exec'd or exited: ignore
\* SIGINT and SIGQUIT
execute_sigaction ==
    /\ pc = "execute_parent"
    /\ child # "created"
    /\ \E installed \in BOOLEAN :
       /\ sig_ignored' = installed
       /\ pc' = IF installed THEN "execute_wait" ELSE "panic"
    /\ UNCHANGED <<usg, argv, args, exit_code, fs, cgroup_record, relaunches,
                   result, printed, log, env, proc>>

(* ------------------------- rusage and Result -------------------------- *)
\* largest tv_usec of a timeval
MaxUsec == 999999
\* the tv_usec values the model draws
Usecs == {0, MaxUsec}
Timevals == [tv_sec : 0..MaxSec, tv_usec : Usecs]
\* struct rusage, the fields execute reads
Rusages == [ru_utime : Timevals, ru_stime : Timevals, ru_maxrss : 0..MaxMem]

\* std::time::Duration: whole seconds and nanoseconds below one second
from_secs(n) == [secs |-> n, nanos |-> 0]
from_nanos(n) == [secs |-> n \div NanosPerSec, nanos |-> n % NanosPerSec]
\* Duration + Duration
add(a, b) ==
    LET n == a.nanos + b.nanos
    IN [secs |-> a.secs + b.secs + n \div NanosPerSec, nanos |-> n % NanosPerSec]

\* Duration::from_secs(tv_sec as u64) + Duration::from_nanos(tv_usec as u64)
timeval_duration(tv) == add(from_secs(tv.tv_sec), from_nanos(tv.tv_usec))

\* memory.peak: a decimal byte count and a newline, an empty line, or no
\* such file (kernel before 5.19)
PeakValues == {k * KiB : k \in 0..MaxMem}
PeakFiles == {<<ToString(n), "\n">> : n \in PeakValues} \cup {<<"\n">>, Unreadable}
RECURSIVE trim_start(_)
trim_start(buf) ==
    IF buf # <<>> /\ Head(buf) \in {" ", "\n"} THEN trim_start(Tail(buf)) ELSE buf
RECURSIVE trim_end(_)
trim_end(buf) ==
    IF buf # <<>> /\ buf[Len(buf)] \in {" ", "\n"}
    THEN trim_end(SubSeq(buf, 1, Len(buf) - 1)) ELSE buf
\* str::trim
trim(buf) == trim_end(trim_start(buf))
\* str::parse::<i64>: the number, -1 for Err
parse_i64(buf) ==
    LET hits == {n \in PeakValues : buf = <<ToString(n)>>}
    IN IF hits = {} THEN -1 ELSE CHOOSE n \in hits : TRUE

\* now.duration_since(t_start) in whole seconds, -1 for Err: the commands of
\* the model take no time, or the system clock was set back meanwhile
Elapsed == {-1, 0}
\* struct Result as execute fills it
make_result(u, elapsed, peak) ==
    [child_user |-> timeval_duration(u.ru_utime),
     child_sys |-> timeval_duration(u.ru_stime),
     child_wall |-> from_secs(elapsed),
     child_rss_highwater |-> u.ru_maxrss * KiB,
     cg_rss_highwater |-> peak]

\* a wait that does not block (WNOHANG): it returns while the child still runs
execute_wait4_nohang ==
    /\ pc = "execute_wait"
    /\ \/ /\ child \in {"running", "exited"}
          /\ child' = IF child = "exited" THEN "reaped" ELSE child
          /\ child_status' = Running
          /\ \E u \in Rusages : usg' = <<u>>
          /\ log' = Append(log, Call("wait4", child_cg, TRUE))
          /\ pc' = "execute_collect"
       \/ /\ pc' = "panic"
          /\ log' = Append(log, Call("wait4", child_cg, FALSE))
          /\ UNCHANGED <<child, child_status, usg>>
    /\ UNCHANGED <<argv, args, exit_code, fs, cgroup_record, sig_ignored, relaunches,
                   result, printed, env, descendants, child_cg>>

\* wait4(child_pid): blocks until the child has ended; r < 0 panics
execute_wait4 ==
    /\ pc = "execute_wait"
    /\ \/ /\ child = "exited"
          /\ child' = "reaped"
          /\ child_status' = Running
          /\ \E u \in Rusages : usg' = <<u>>
          /\ log' = Append(log, Call("wait4", child_cg, TRUE))
          /\ pc' = "execute_collect"
       \/ /\ pc' = "panic"
          /\ log' = Append(log, Call("wait4", child_cg, FALSE))
          /\ UNCHANGED <<child, child_status, usg>>
    /\ UNCHANGED <<argv, args, exit_code, fs, cgroup_record, sig_ignored, relaunches,
                   result, printed, env, descendants, child_cg>>

\* a memory.peak that cannot be read or parsed counted as zero
execute_collect_defaulting ==
    /\ pc = "execute_collect"
    /\ \E elapsed \in Elapsed :
       IF elapsed < 0
       THEN /\ pc' = "panic"
            /\ UNCHANGED <<result, log>>
       ELSE \E file \in PeakFiles :
            LET buf == IF fs[args.leaf_dir] = "dir" THEN file ELSE Unreadable
                peak == IF buf = Unreadable THEN -1 ELSE parse_i64(trim(buf))
            IN /\ log' = Append(log, Call("read", join(args.leaf_dir, "memory.peak"),
                                         peak >= 0))
               /\ result' = <<make_result(usg[1], elapsed, IF peak >= 0 THEN peak ELSE 0)>>
               /\ pc' = "execute_return"
    /\ usg' = None
    /\ UNCHANGED <<argv, args, exit_code, fs, cgroup_record, sig_ignored, relaunches,
                   printed, env, proc>>

\* fill Result from the rusage, the clock and leaf_dir/memory.peak
execute_collect ==
    /\ pc = "execute_collect"
    /\ \E elapsed \in Elapsed :
       IF elapsed < 0
       \* SystemTime went backwards: duration_since(t_start).unwrap() panics
       THEN /\ pc' = "panic"
            /\ UNCHANGED <<result, log>>
       ELSE \E file \in PeakFiles :
            LET buf == IF fs[args.leaf_dir] = "dir" THEN file ELSE Unreadable
                peak == IF buf = Unreadable THEN -1 ELSE parse_i64(trim(buf))
            IN /\ log' = Append(log, Call("read", join(args.leaf_dir, "memory.peak"),
                                         peak >= 0))
               /\ IF peak >= 0
                  THEN /\ result' = <<make_result(usg[1], elapsed, peak)>>
                       /\ pc' = "execute_return"
                  ELSE /\ pc' = "panic"
                       /\ UNCHANGED result
    /\ usg' = None
    /\ UNCHANGED <<argv, args, exit_code, fs, cgroup_record, sig_ignored, relaunches,
                   printed, env, proc>>

(* ---------------------------- Drop for Args --------------------------- *)
\* fs::remove_dir of one Option<PathBuf> field: the filesystem afterwards
removed(f, dir) == IF dir # None /\ rmdir_ok(f, dir) THEN [f EXCEPT ![dir] = "absent"] ELSE f
\* ... and the call it made, if any
removal(f, dir) == IF dir = None THEN <<>> ELSE <<Call("rmdir", dir, rmdir_ok(f, dir))>>


\* a cleanup that also removes the directory given with -c
Drop_with_target ==
    /\ pc \in {"panic", "execute_return"}
    /\ LET fs1 == removed(fs, args.leaf_dir)
           fs2 == removed(fs1, args.temp_cg_dir)
       IN /\ fs' = removed(fs2, args.cg_dir)
          /\ log' = log \o removal(fs, args.leaf_dir) \o removal(fs1, args.temp_cg_dir)
                        \o removal(fs2, args.cg_dir)
    /\ args' = [args EXCEPT !.leaf_dir = None, !.temp_cg_dir = None]
    /\ IF pc = "panic"
       THEN pc' = "exited" /\ exit_code' = ExitPanic
       ELSE pc' = "println" /\ UNCHANGED exit_code
    /\ UNCHANGED <<usg, argv, cgroup_record, sig_ignored, relaunches, result, printed,
                   env, proc>>

\* a cleanup that gives up, and fails the run, when the leaf cannot be removed
Drop_escalating ==
    /\ pc \in {"panic", "execute_return"}
    /\ LET leaf_failed == args.leaf_dir # None /\ ~rmdir_ok(fs, args.leaf_dir)
           fs1 == removed(fs, args.leaf_dir)
       IN IF leaf_failed
          THEN /\ log' = log \o removal(fs, args.leaf_dir)
               /\ pc' = "exited"
               /\ exit_code' = ExitPanic
               /\ UNCHANGED fs
          ELSE /\ fs' = removed(fs1, args.temp_cg_dir)
               /\ log' = log \o removal(fs, args.leaf_dir) \o removal(fs1, args.temp_cg_dir)
               /\ IF pc = "panic"
                  THEN pc' = "exited" /\ exit_code' = ExitPanic
                  ELSE pc' = "println" /\ UNCHANGED exit_code
    /\ args' = [args EXCEPT !.leaf_dir = None, !.temp_cg_dir = None]
    /\ UNCHANGED <<usg, argv, cgroup_record, sig_ignored, relaunches, result, printed,
                   env, proc>>

\* runs when execute returns (it owns self) and when a panic unwinds main
Drop ==
    /\ pc \in {"panic", "execute_return"}
    /\ LET fs1 == removed(fs, args.leaf_dir)
       IN /\ fs' = removed(fs1, args.temp_cg_dir)
          /\ log' = log \o removal(fs, args.leaf_dir) \o removal(fs1, args.temp_cg_dir)
    /\ args' = [args EXCEPT !.leaf_dir = None, !.temp_cg_dir = None]
    /\ IF pc = "panic"
       THEN pc' = "exited" /\ exit_code' = ExitPanic
       ELSE pc' = "println" /\ UNCHANGED exit_code
    /\ UNCHANGED <<usg, argv, cgroup_record, sig_ignored, relaunches, result, printed,
                   env, proc>>

\* println!("{}", result) and the return from main
main_println ==
    /\ pc = "println"
    /\ printed' = TRUE
    /\ result' = None
    /\ pc' = "exited"
    /\ exit_code' = 0
    /\ UNCHANGED <<usg, argv, args, fs, cgroup_record, sig_ignored, relaunches,
                   log, env, proc>>

(* --------------------------- the environment -------------------------- *)
\* the command starts a process of its own, which stays in the leaf group
child_spawn ==
    /\ child = "running"
    /\ ~descendants
    /\ descendants' = TRUE
    /\ UNCHANGED <<usg, argv, args, pc, exit_code, fs, cgroup_record, sig_ignored, relaunches,
                   result, printed, log, env, child, child_status, child_cg>>

\* the command ends
child_exit ==
    /\ child = "running"
    /\ child' = "exited"
    /\ child_status' \in {0, 1}
    /\ UNCHANGED <<usg, argv, args, pc, exit_code, fs, cgroup_record, sig_ignored, relaunches,
                   result, printed, log, env, descendants, child_cg>>

\* the processes the command started end
descendants_exit ==
    /\ descendants
    /\ descendants' = FALSE
    /\ UNCHANGED <<usg, argv, args, pc, exit_code, fs, cgroup_record, sig_ignored, relaunches,
                   result, printed, log, env, child, child_status, child_cg>>

\* somebody else removes a directory this run made (the deletion race)
external_remove(p) ==
    /\ \E i \in 1..Len(log) : log[i] = Call("mkdir", p, TRUE)
    /\ rmdir_ok(fs, p)
    /\ fs' = [fs EXCEPT ![p] = "absent"]
    /\ UNCHANGED <<usg, argv, args, pc, exit_code, cgroup_record, sig_ignored, relaunches,
                   result, printed, log, env, proc>>

\* SIGINT or SIGQUIT from the terminal: ends the harness unless it ignores
\* them, and ends the command in the foreground
deliver_signal ==
    /\ pc # "exited"
    /\ IF sig_ignored
       THEN /\ child = "running"
            /\ child' = "exited"
            /\ child_status' = ExitKilled
            /\ UNCHANGED <<pc, exit_code>>
       ELSE /\ pc' = "exited"
            /\ exit_code' = ExitKilled
            /\ UNCHANGED <<child, child_status>>
    /\ UNCHANGED <<usg, argv, args, fs, cgroup_record, sig_ignored, relaunches,
                   result, printed, log, env, descendants, child_cg>>

Next ==
    \/ main_parse
    \/ check_cgroupfs
    \/ check_cgroup_dir
    \/ setup_cgroup_mkdir
    \/ setup_cgroup_enable
    \/ execute_clone
    \/ child_exec
    \/ execute_sigaction
    \/ execute_wait4
    \/ execute_collect
    \/ Drop
    \/ main_println
    \/ child_spawn
    \/ child_exit
    \/ descendants_exit
    \/ \E p \in Paths : external_remove(p)
    \/ deliver_signal

Spec == Init /\ [][Next]_vars

\* the steps of the harness that do not wait for anything: main is one
\* thread of straight-line, synchronous code
HarnessStep ==
    \/ main_parse
    \/ check_cgroupfs
    \/ check_cgroup_dir
    \/ setup_cgroup_mkdir
    \/ setup_cgroup_enable
    \/ execute_clone
    \/ execute_sigaction
    \/ execute_collect
    \/ Drop
    \/ main_println
\* the harness keeps running; its wait4 returns once the child has ended;
\* the cloned child reaches its exec.  Nothing makes the command end.
FairSpec ==
    /\ Spec
    /\ WF_vars(HarnessStep)
    /\ WF_vars(execute_wait4 /\ pc' = "execute_collect")
    /\ WF_vars(child_exec)

(* ======================= the claims' vocabulary ======================= *)
Calls(op) == {i \in 1..Len(log) : log[i].op = op}
\* the directories this run made
Created == {log[i].path : i \in {j \in Calls("mkdir") : log[j].ok}}
IsLeaf(p) == p # None /\ p[Len(p)] = "leaf"
\* the harness ended by returning from main or by a panic
Ended == pc = "exited" /\ exit_code \in {0, ExitPanic}
\* no process was created
NoProcess == child = "none" /\ Calls("clone") = {}

(* C1: on every exit path reached after the leaf (and the ephemeral       *)
(* target) directory was made - return from main, command not started,    *)
(* panic in setup_cgroup or execute - every directory this run made is    *)
(* gone when the harness ends, and the harness called rmdir on it exactly *)
(* once.                                                                  *)
C1_ReleasedOnEveryExit ==
    Ended =>
        \A d \in Created :
            /\ fs[d] = "absent"
            /\ Cardinality({i \in Calls("rmdir") : log[i].path = d}) = 1

(* C2: the leaf directory exists whenever the launched child runs, and it *)
(* is absent once the harness has ended with the child reaped (or never   *)
(* created), also when processes the child started are still in the leaf. *)
C2_LeafLifetime ==
    /\ child = "running" => fs[child_cg] = "dir"
    /\ (Ended /\ child \in {"none", "reaped"}) =>
           \A d \in Created : IsLeaf(d) => fs[d] = "absent"

(* C3: while the directory given with -c is a directory, no step creates  *)
(* or deletes it: it stays a directory, and every mkdir or rmdir the      *)
(* harness calls names the leaf under it.                                 *)
C3_ExplicitDirUntouched ==
    [][(args.cg_dir # None /\ fs[ExplicitDir] = "dir") =>
          /\ fs'[ExplicitDir] = "dir"
          /\ \A i \in (Len(log) + 1)..Len(log') :
                log'[i].op \in {"mkdir", "rmdir"} =>
                    log'[i].path = join(ExplicitDir, "leaf")]_vars
\* a run with -c that made its leaf, removed it and ended
C3_Witness ==
    /\ pc = "exited"
    /\ args.cg_dir = ExplicitDir
    /\ fs[ExplicitDir] = "dir"
    /\ \E i \in Calls("rmdir") : log[i] = Call("rmdir", join(ExplicitDir, "leaf"), TRUE)

(* C4 as claimed: every creation of the leaf directory comes after a      *)
(* successful write of "+memory" to the target's cgroup.subtree_control.  *)
C4_LeafAfterEnable ==
    \A i \in Calls("mkdir") :
        (IsLeaf(log[i].path) /\ log[i].ok) =>
            \E j \in Calls("write") : j < i /\ log[j].ok
(* C4 amended: every write of "+memory" to the target's                   *)
(* cgroup.subtree_control, and the open before it, comes after the        *)
(* successful creation of the leaf directory under that target; no write  *)
(* happens in a run whose leaf creation failed.                           *)
C4_EnableAfterLeaf ==
    \A i \in Calls("open") \cup Calls("write") :
        \E j \in Calls("mkdir") :
            /\ j < i
            /\ log[j] = Call("mkdir", join(parent(log[i].path), "leaf"), TRUE)
\* the controller was enabled
C4_Witness == \E i \in Calls("write") : log[i].ok

(* C5: clone3 is called only after the leaf was made and "+memory" was    *)
(* written, both successfully; once a provisioning step (tempdir, leaf,   *)
(* open or write of subtree_control) has failed, no process exists.       *)
C5_ProcessAfterProvisioning ==
    /\ \A i \in Calls("clone") :
          /\ \E j \in Calls("mkdir") : j < i /\ log[j] = Call("mkdir", log[i].path, TRUE)
          /\ \E j \in Calls("write") :
                /\ j < i
                /\ log[j] = Call("write", join(parent(log[i].path), "cgroup.subtree_control"), TRUE)
    /\ (\E i \in Calls("mkdir") \cup Calls("open") \cup Calls("write") : ~log[i].ok)
          => NoProcess
    /\ child # "none" => \E i \in Calls("clone") : log[i].ok
\* the command runs in the leaf
C5_Witness == child = "running" /\ IsLeaf(child_cg)

(* C6: when the command does not exist (the child's exec fails) and the   *)
(* harness ends without a panic of its own, it ends with status 127 and   *)
(* has removed the directories it made.                                   *)
C6_NotStartedExits127 ==
    (/\ pc = "exited"
     /\ exit_code \notin {ExitKilled, ExitPanic}
     /\ \E i \in Calls("execve") : ~log[i].ok) =>
        /\ exit_code = ExitNotStarted
        /\ \A d \in Created : fs[d] = "absent"

\* the record was read, has a "/" and no ".service": a control-group
\* record without a usable session scope
NoScope(rec) ==
    /\ rec \notin {NotRead, Unreadable}
    /\ find(rec, <<"/">>) # 0
    /\ find(rec, <<".service">>) = 0

(* C7: called without -c and with -Z, the harness that reads a record     *)
(* without a usable session scope exits with status 119; it has created   *)
(* no process and no directory and has not re-launched itself.            *)
C7_NoScopeExits119 ==
    (/\ parse(argv_orig).cg_dir = None
     /\ parse(argv_orig).disable_systemd_run
     /\ NoScope(cgroup_record)) =>
        /\ pc = "exited"
        /\ exit_code = ExitNoScope
        /\ NoProcess
        /\ Created = {}
        /\ Calls("mkdir") = {}
        /\ Calls("exec") = {}
        /\ relaunches = 0
\* the record "/x" read under -Z
C7_Witness ==
    /\ parse(argv_orig).disable_systemd_run
    /\ cgroup_record = <<"/", "x">>
    /\ exit_code = ExitNoScope

(* C8: when -c names a path that is missing or no directory, the harness  *)
(* never makes a directory, never opens or writes a subtree_control file  *)
(* and never creates a process, and it ends by a panic (status 101), if   *)
(* no signal ends it first.                                               *)
C8_InvalidDirFailsEarly ==
    (parse(argv_orig).cg_dir # None /\ fs[ExplicitDir] # "dir") =>
        /\ log = <<>>
        /\ Created = {}
        /\ NoProcess
        /\ pc \in {"start", "check_cgroupfs", "check_cgroup_dir", "panic", "exited"}
        /\ pc = "exited" => exit_code \in {ExitPanic, ExitKilled}
\* a valid mount, -c naming a file: the run ended in check_cgroup_dir
C8_Witness ==
    /\ args.cg_dir = ExplicitDir
    /\ fs[ExplicitDir] = "file"
    /\ file_ok(controllers_file) /\ file_ok(subtree_file)
    /\ pc = "exited"
    /\ exit_code = ExitPanic

(* C9: the fallback does not recurse: the process re-launches at most     *)
(* once; the re-launched invocation runs with args[0], -Z and all the     *)
(* original arguments, so it parses to the same command and -c with the   *)
(* fallback disabled; when it finds no scope it exits with 119, when it   *)
(* finds one it goes on to make its tempdir; and the harness exits with   *)
(* 118 exactly when its exec of systemd-run failed.                       *)
C9_NoRecursion ==
    /\ relaunches <= 1
    /\ Cardinality({i \in Calls("exec") : log[i].ok}) = relaunches
    /\ relaunches = 1 =>
          /\ argv = <<Head(argv_orig), "-Z">> \o Tail(argv_orig)
          /\ parse(argv) = [parse(argv_orig) EXCEPT !.disable_systemd_run = TRUE]
          /\ args.command # <<>> => args.disable_systemd_run
          /\ NoScope(cgroup_record) => (pc = "exited" /\ exit_code = ExitNoScope)
          /\ (/\ cgroup_record \notin {NotRead, Unreadable}
              /\ find(cgroup_record, <<".service">>) > find(cgroup_record, <<"/">>)
              /\ find(cgroup_record, <<"/">>) > 0) => Calls("mkdir") # {}
    /\ (pc = "exited" /\ exit_code = ExitReexecFailed)
          <=> (log # <<>> /\ log[Len(log)] = Call("exec", <<"systemd-run">>, FALSE))
\* the re-launched invocation found no scope either
C9_Witness == relaunches = 1 /\ exit_code = ExitNoScope

\* the file is readable and names the memory controller
ListsMemory(file) == file # Unreadable /\ \E i \in 1..Len(file) : file[i] = "memory"

(* C10: check_cgroupfs succeeds exactly when cgroup.controllers and       *)
(* cgroup.subtree_control are both readable and both list "memory",       *)
(* wherever in the list it stands; it fails otherwise; it changes         *)
(* nothing else.                                                          *)
C10_ValidatorExact ==
    [][(pc = "check_cgroupfs" /\ pc' \in {"check_cgroup_dir", "panic"}) =>
          /\ pc' = "check_cgroup_dir"
                <=> (ListsMemory(controllers_file) /\ ListsMemory(subtree_file))
          /\ UNCHANGED <<args, fs, log, controllers_file, subtree_file>>]_vars

(* C11: every directory this run made is gone when the harness prints its *)
(* result, and on an error path (panic, with the child reaped or never    *)
(* created) it is gone when the harness has exited.                       *)
C11_RemovedBeforeReport ==
    /\ (pc = "println" \/ printed) => \A d \in Created : fs[d] = "absent"
    /\ (pc = "exited" /\ exit_code = ExitPanic /\ child \in {"none", "reaped"}) =>
           \A d \in Created : fs[d] = "absent"

(* C12: the result is printed at most once and only by a run that ends    *)
(* with status 0; a Result exists only after wait4 has reaped the child   *)
(* and memory.peak was read and parsed, in this order; once wait4 or the  *)
(* reading of memory.peak has failed there is no Result, nothing is       *)
(* printed, and the harness ends with a status other than 0.              *)
C12_ResultAfterReapAndPeak ==
    /\ printed => (pc = "exited" /\ exit_code = 0)
    /\ (result # None \/ printed) =>
          /\ child = "reaped"
          /\ \E i \in Calls("wait4") : \E j \in Calls("read") :
                i < j /\ log[i].ok /\ log[j].ok
    /\ (\E i \in Calls("wait4") \cup Calls("read") : ~log[i].ok) =>
          /\ result = None
          /\ ~printed
          /\ pc \in {"panic", "exited"}
          /\ pc = "exited" => exit_code \notin {0, Running}
    /\ Cardinality(Calls("wait4")) <= 1 /\ Cardinality(Calls("read")) <= 1
\* memory.peak could not be read after the child was reaped, and the
\* harness has ended
C12_Witness ==
    /\ pc = "exited"
    /\ \E i \in Calls("wait4") : log[i].ok
    /\ \E j \in Calls("read") : ~log[j].ok

\* the rmdir calls a step adds to the log
NewRemovals == {i \in (Len(log) + 1)..Len(log') : log'[i].op = "rmdir"}
(* C13: the step that removes the directories leaves the outcome alone,   *)
(* whether its rmdir calls fail or not: a panic still ends with status    *)
(* 101 and prints nothing, a returned Result is still the one that is     *)
(* printed, and the run that printed it ends with status 0; rmdir is      *)
(* called on the leaf and, also when that failed, on the ephemeral        *)
(* directory.                                                             *)
C13_CleanupOnlyReported ==
    [][/\ NewRemovals # {} =>
            /\ pc \in {"panic", "execute_return"}
            /\ pc = "panic" =>
                  (pc' = "exited" /\ exit_code' = ExitPanic /\ ~printed' /\ result' = result)
            /\ pc = "execute_return" =>
                  (pc' = "println" /\ exit_code' = Running /\ result' = result /\ result # None)
            /\ args.leaf_dir # None =>
                  \E i \in NewRemovals : log'[i].path = args.leaf_dir
            /\ args.temp_cg_dir # None =>
                  \E i \in NewRemovals : log'[i].path = args.temp_cg_dir
       /\ (pc = "println" /\ pc' # pc) =>
            (pc' = "exited" /\ exit_code' = 0 /\ printed' /\ ~printed)]_vars
\* a run whose leaf could not be removed, which still tried the ephemeral
\* directory, printed its result and ended with status 0
C13_Witness ==
    /\ pc = "exited" /\ exit_code = 0 /\ printed
    /\ \E i \in Calls("rmdir") : \E j \in Calls("rmdir") :
          /\ i < j
          /\ IsLeaf(log[i].path) /\ ~log[i].ok
          /\ log[j].path = TempDir

(* C14: when SIGINT or SIGQUIT has ended the harness, every directory     *)
(* this run made is gone.                                                 *)
C14_ReleasedOnSignal ==
    (pc = "exited" /\ exit_code = ExitKilled) => \A d \in Created : fs[d] = "absent"

(* C15: SIGINT or SIGQUIT never ends the harness once the child has been  *)
(* created, and the harness ignores both signals whenever it is in wait4  *)
(* and from then on until it has printed.                                 *)
C15_SignalsSpareHarness ==
    /\ exit_code = ExitKilled => child = "none"
    /\ pc \in {"execute_wait", "execute_collect", "execute_return", "println"} =>
          sig_ignored

\* Duration::from_micros
from_micros(n) == [secs |-> n \div 1000000, nanos |-> (n % 1000000) * 1000]
\* s seconds plus u microseconds
timeval_micros(tv) == add(from_secs(tv.tv_sec), from_micros(tv.tv_usec))
(* C17: the user and system CPU times execute puts into the Result are,  *)
(* for the rusage wait4 returned, exactly tv_sec seconds plus tv_usec     *)
(* microseconds, and are not negative.                                    *)
C17_CpuTimesExact ==
    [][(pc = "execute_collect" /\ result' # None) =>
          /\ result'[1].child_user = timeval_micros(usg[1].ru_utime)
          /\ result'[1].child_sys = timeval_micros(usg[1].ru_stime)
          /\ result'[1].child_user.secs >= 0 /\ result'[1].child_user.nanos >= 0
          /\ result'[1].child_sys.secs >= 0 /\ result'[1].child_sys.nanos >= 0]_vars

\* the harness called rmdir on d
Released(d) == \E i \in Calls("rmdir") : log[i].path = d
\* while the command runs: nothing is reported and the leaf is in place
Blocked ==
    /\ ~printed /\ result = None
    /\ fs[child_cg] = "dir"
    /\ \A i \in Calls("rmdir") : log[i].path = child_cg => ~log[i].ok
(* C18 as claimed: while the launched command runs, the harness has not   *)
(* reported, has not removed the leaf, and has not ended unless a signal  *)
(* ended it.                                                              *)
C18_BlocksWhileRunning ==
    child = "running" =>
        /\ Blocked
        /\ pc = "exited" => exit_code = ExitKilled
(* C18 amended: while the launched command runs, the harness has not      *)
(* reported and has not removed the leaf, and it has ended only if a      *)
(* signal ended it or it panicked because sigaction or wait4 failed; once *)
(* the child has ended the harness eventually ends, and unless a signal   *)
(* ended it, it has then called rmdir on the leaf and on the ephemeral    *)
(* directory it made.                                                     *)
C18_NoTimeout ==
    /\ [](child = "running" =>
            /\ Blocked
            /\ pc = "exited" =>
                  \/ exit_code = ExitKilled
                  \/ /\ exit_code = ExitPanic
                     /\ ~sig_ignored \/ \E i \in Calls("wait4") : ~log[i].ok)
    /\ (child \in {"exited", "reaped"}) ~>
          /\ pc = "exited"
          /\ exit_code # ExitKilled =>
                /\ Released(child_cg)
                /\ TempDir \in Created => Released(TempDir)
\* the command ran and ended, wait4 reaped it, and the harness ended after
\* calling rmdir on the leaf
C18_Witness ==
    /\ pc = "exited" /\ exit_code = 0
    /\ child = "reaped"
    /\ \E i \in Calls("execve") : log[i].ok
    /\ Released(child_cg)

(* C19: when setup_cgroup starts, exactly one of cg_dir and temp_cg_dir   *)
(* is set, so it finds its directory and "Miss cgroup directory" is not   *)
(* raised; the fallback does not come back: an exec of systemd-run that   *)
(* failed is the last thing the harness did before exiting with 118, one  *)
(* that succeeded started the program over, and 119 is the exit of a run  *)
(* with -Z.                                                               *)
C19_OneTargetVariant ==
    /\ pc = "setup_cgroup" =>
          /\ (args.cg_dir # None) # (args.temp_cg_dir # None)
          /\ target_dir(args) # None
    /\ \A i \in Calls("exec") :
          ~log[i].ok => (i = Len(log) /\ pc = "exited" /\ exit_code = ExitReexecFailed)
    /\ Cardinality({i \in Calls("exec") : log[i].ok}) = relaunches
    /\ (pc = "exited" /\ exit_code = ExitNoScope) =>
          (args.disable_systemd_run /\ Calls("mkdir") = {})
\* provisioning starts on the derived directory, in a run that went
\* through the fallback first
C19_Witness ==
    /\ pc = "setup_cgroup"
    /\ args.temp_cg_dir = TempDir /\ args.cg_dir = None
    /\ relaunches > 0

(* C20: every rmdir the harness calls names a directory this run made     *)
(* with an earlier successful mkdir; leaf_dir and temp_cg_dir are set     *)
(* only to directories this run made; a run whose leaf mkdir failed calls *)
(* no rmdir on that path; and no step removes a directory this run did    *)
(* not make (a "leaf" that was there before the run stays).               *)
C20_RemovesOnlyItsOwn ==
    /\ [](/\ \A i \in Calls("rmdir") :
               \E j \in Calls("mkdir") : j < i /\ log[j] = Call("mkdir", log[i].path, TRUE)
          /\ args.leaf_dir # None => args.leaf_dir \in Created
          /\ args.temp_cg_dir # None => args.temp_cg_dir \in Created
          /\ \A i \in Calls("mkdir") :
               ~log[i].ok => (pc \in {"panic", "exited"} /\ ~Released(log[i].path)))
    /\ [][\A p \in Paths : (fs[p] = "dir" /\ p \notin Created) => fs'[p] = "dir"]_vars
\* a "leaf" was already under the directory given with -c: create_dir
\* failed, the run ended with a panic, and the directory is still there
C20_Witness ==
    /\ pc = "exited" /\ exit_code = ExitPanic
    /\ \E i \in Calls("mkdir") : log[i] = Call("mkdir", join(ExplicitDir, "leaf"), FALSE)
    /\ fs[join(ExplicitDir, "leaf")] = "dir"

====
